---- MODULE Spec2Model ----
(***************************************************************************)
(* A model of radvel/likelihood.py: the Likelihood base class with its     *)
(* cached vary mask, RVLikelihood, CompositeLikelihood and GPLikelihood.   *)
(*                                                                         *)
(* Floating-point numbers are modelled as exact extended rationals         *)
(* <<tag, n, d>> with the IEEE special values nan, +inf and -inf; rounding *)
(* is not modelled.                                                        *)
(***************************************************************************)
EXTENDS Integers, Sequences, FiniteSets, Bags, TLC

VARIABLES
    vector,       \* the shared vector: one row [value, vary, linear] per slot
    vary_params,  \* the likelihood's cached vary mask: [has, idx]
    ny,           \* len(self.y) of the likelihood the mask belongs to
    last,         \* the call that ended last: its name, arguments and outcome
    paramObjs,    \* heap of params dictionaries: id -> ordered <<[k, v], ...>>
    vecs,         \* heap of vector objects: id -> [indices, rows]
    likes,        \* the RVLikelihood objects constructed so far, in order
    comp,         \* the CompositeLikelihood / GPLikelihood object, if built
    kernel        \* the GP kernel object's state: [built, dist, hparams]

vars == <<vector, vary_params, ny, last, paramObjs, vecs, likes, comp, kernel>>

-----------------------------------------------------------------------------
(* Bounds of the model.                                                    *)

NSlots == 2
MaxN == 3

-----------------------------------------------------------------------------
(* numpy float64 arithmetic, exact on the rationals, with nan and +-inf.   *)

NaN == <<"nan", 0, 1>>
PInf == <<"pinf", 0, 1>>
NInf == <<"ninf", 0, 1>>

\* Op applied to the value of e: e is evaluated once, however often Op uses it
Once(Op(_), e) == CHOOSE r \in {Op(x) : x \in {e}} : TRUE

\* the array f with every element computed
Array(f) == f \o <<>>

Abs(a) == IF a < 0 THEN -a ELSE a

RECURSIVE GCD(_, _)
GCD(a, b) == IF b = 0 THEN a ELSE Once(LAMBDA p : GCD(p[1], p[2]), <<b, a % b>>)

Norm(n, d) ==
    LET g == GCD(Abs(n), Abs(d))
        s == IF d < 0 THEN -1 ELSE 1
    IN <<"fin", (s * n) \div g, (s * d) \div g>>

F(n) == <<"fin", n, 1>>

IsFin(a) == a[1] = "fin"
IsNan(a) == a[1] = "nan"
IsInf(a) == a[1] \in {"pinf", "ninf"}

Sign(a) ==
    CASE a[1] = "pinf" -> 1
      [] a[1] = "ninf" -> -1
      [] a[1] = "fin" -> (IF a[2] > 0 THEN 1 ELSE IF a[2] < 0 THEN -1 ELSE 0)
      [] OTHER -> 0

InfOf(s) == IF s > 0 THEN PInf ELSE NInf

FNeg(a) ==
    CASE a[1] = "fin" -> <<"fin", -a[2], a[3]>>
      [] a[1] = "pinf" -> NInf
      [] a[1] = "ninf" -> PInf
      [] OTHER -> NaN

AddValues(a, b) ==
    IF IsNan(a) \/ IsNan(b) THEN NaN
    ELSE IF IsInf(a) /\ IsInf(b) THEN (IF a = b THEN a ELSE NaN)
    ELSE IF IsInf(a) THEN a
    ELSE IF IsInf(b) THEN b
    ELSE Norm(a[2] * b[3] + b[2] * a[3], a[3] * b[3])

FAdd(a, b) == Once(LAMBDA p : AddValues(p[1], p[2]), <<a, b>>)

FSub(a, b) == FAdd(a, FNeg(b))

MulValues(a, b) ==
    IF IsNan(a) \/ IsNan(b) THEN NaN
    ELSE IF IsInf(a) \/ IsInf(b)
         THEN (IF Sign(a) * Sign(b) = 0 THEN NaN ELSE InfOf(Sign(a) * Sign(b)))
    ELSE Norm(a[2] * b[2], a[3] * b[3])

FMul(a, b) == Once(LAMBDA p : MulValues(p[1], p[2]), <<a, b>>)

\* numpy division: x/0 is +-inf or nan (a warning, never an exception)
DivValues(a, b) ==
    IF IsNan(a) \/ IsNan(b) THEN NaN
    ELSE IF IsInf(a) /\ IsInf(b) THEN NaN
    ELSE IF IsInf(b) THEN F(0)
    ELSE IF IsInf(a) THEN InfOf(Sign(a) * (IF Sign(b) < 0 THEN -1 ELSE 1))
    ELSE IF b[2] = 0 THEN (IF a[2] = 0 THEN NaN ELSE InfOf(Sign(a)))
    ELSE Norm(a[2] * b[3], a[3] * b[2])

FDiv(a, b) == Once(LAMBDA p : DivValues(p[1], p[2]), <<a, b>>)

FSq(a) == Once(LAMBDA v : MulValues(v, v), a)

RECURSIVE SumValues(_)
SumValues(s) == IF s = <<>> THEN F(0) ELSE FAdd(Head(s), SumValues(Tail(s)))

\* np.sum
FSum(s) == Once(LAMBDA t : SumValues(t), s)

-----------------------------------------------------------------------------
(* Likelihood: the cached vary mask.                                       *)

NoOp == [op |-> "none"]
NoMask == [has |-> FALSE, idx |-> <<>>]

RECURSIVE WhereVary(_, _)
\* np.where(vector[:,1] == True)[0], as 1-based slot numbers in slot order
WhereVary(vec, from) ==
    IF from > Len(vec) THEN <<>>
    ELSE (IF vec[from].vary THEN <<from>> ELSE <<>>) \o WhereVary(vec, from + 1)

\* list_vary_params: the mask recomputed from the vector
list_vary_params(vec) == [has |-> TRUE, idx |-> WhereVary(vec, 1)]

\* set_vary_params, lines 145-149: the mask is recomputed only when the
\* attribute is missing or its length differs from the values' length
MaskForSet(vp, vec, values) ==
    IF ~vp.has THEN list_vary_params(vec)
    ELSE IF Len(vp.idx) # Len(values) THEN list_vary_params(vec)
    ELSE vp

Min(a, b) == IF a < b THEN a ELSE b

RECURSIVE WriteValues(_, _, _, _)
\* the loop of lines 150-152, stopped by the IndexError when values run out
WriteValues(vec, idx, values, i) ==
    IF i > Min(Len(idx), Len(values)) THEN vec
    ELSE WriteValues([vec EXCEPT ![idx[i]].value = values[i]], idx, values, i + 1)

\* how set_vary_params ends: IndexError inside the loop, AssertionError after it
SetOutcome(idx, values) ==
    IF Len(idx) > Len(values) THEN "IndexError"
    ELSE IF Len(idx) < Len(values) THEN "AssertionError"
    ELSE "none"

\* A mutation: the values are read from a freshly computed mask.
ReadMaskFresh(vp, vec) == list_vary_params(vec)

\* get_vary_params, lines 157-161: the mask is computed only when missing
ReadMask(vp, vec) == IF vp.has THEN vp ELSE list_vary_params(vec)

\* self.vector.vector[self.vary_params][:,0]
TakeValues(vec, idx) == [i \in 1..Len(idx) |-> vec[idx[i]].value]

\* A mutation: the small-sample correction is applied when denom is 0 too.
aicDenomGeq(n, k, lp) ==
    LET a == FAdd(FMul(F(-2), lp), F(2 * k))
        denom == n - k - 1
    IN IF denom >= 0 THEN FAdd(a, FDiv(F(2 * k * (k + 1)), F(denom)))
       ELSE PInf

\* Likelihood.aic, lines 213-226, given k = len(get_vary_params()) and the
\* value lp that self.logprob() returned
aic(n, k, lp) ==
    LET a == FAdd(FMul(F(-2), lp), F(2 * k))
        denom == n - k - 1
    IN IF denom > 0 THEN FAdd(a, FDiv(F(2 * k * (k + 1)), F(denom)))
       ELSE PInf

-----------------------------------------------------------------------------
(* The vary-mask specification: one likelihood on one shared vector whose  *)
(* vary flags are changed from outside between the calls.                  *)

\* the arrays handed to set_vary_params: of every length up to the number of
\* slots, with pairwise different elements, two arrays of each length
ValueArrays ==
    {[i \in 1..len |-> F(b + i)] : len \in 0..NSlots, b \in {0, NSlots}}

\* what self.logprob() can return: a finite number, or -inf (GPLikelihood on
\* a kernel that is not positive-definite, line 492)
LogprobValues == {NInf, F(0), F(-3)}

NoComp == [built |-> FALSE, tried |-> FALSE]
NoKernel == [built |-> FALSE]

Init ==
    /\ vector \in [1..NSlots -> [value : {F(0)}, vary : BOOLEAN, linear : {FALSE}]]
    /\ vary_params = NoMask
    /\ ny \in 1..MaxN
    /\ last = NoOp
    /\ paramObjs = <<>>
    /\ vecs = <<>>
    /\ likes = <<>>
    /\ comp = NoComp
    /\ kernel = NoKernel

others == <<paramObjs, vecs, likes, comp, kernel>>

\* set_vary_params(param_values_array), lines 142-154
SetVaryParams(values) ==
    LET vp == MaskForSet(vary_params, vector, values)
    IN /\ vary_params' = vp
       /\ vector' = WriteValues(vector, vp.idx, values, 1)
       /\ last' = [op |-> "set_vary_params", values |-> values,
                   nvary |-> Len(WhereVary(vector, 1)),
                   stale |-> vary_params.has
                             /\ vary_params.idx # WhereVary(vector, 1),
                   err |-> SetOutcome(vp.idx, values)]
       /\ UNCHANGED <<ny, others>>

\* get_vary_params(), lines 156-161
GetVaryParams ==
    LET vp == ReadMask(vary_params, vector)
    IN /\ vary_params' = vp
       /\ last' = [op |-> "get_vary_params", ret |-> TakeValues(vector, vp.idx),
                   after |-> IF last.op = "set_vary_params" THEN last
                             ELSE [op |-> last.op]]
       /\ UNCHANGED <<vector, ny, others>>

\* list_vary_params(), lines 163-164
ListVaryParams ==
    /\ vary_params' = list_vary_params(vector)
    /\ last' = [op |-> "list_vary_params"]
    /\ UNCHANGED <<vector, ny, others>>

\* aic(), lines 204-226; logprob() is the subclass's and returns lp
Aic(lp) ==
    LET vp == ReadMask(vary_params, vector)
        k == Len(TakeValues(vector, vp.idx))
    IN /\ vary_params' = vp
       /\ last' = [op |-> "aic", n |-> ny, k |-> k, lp |-> lp,
                   ret |-> aic(ny, k, lp), err |-> "none"]
       /\ UNCHANGED <<vector, ny, others>>

\* the owner of the vector changes one slot's vary flag (outside this file)
ExternalSetVary(s, b) ==
    /\ vector[s].vary # b
    /\ vector' = [vector EXCEPT ![s].vary = b]
    /\ last' = [op |-> "external"]
    /\ UNCHANGED <<vary_params, ny, others>>

Next ==
    \/ \E values \in ValueArrays : SetVaryParams(values)
    \/ GetVaryParams
    \/ ListVaryParams
    \/ \E lp \in LogprobValues : Aic(lp)
    \/ \E s \in 1..NSlots, b \in BOOLEAN : ExternalSetVary(s, b)

Spec == Init /\ [][Next]_vars

-----------------------------------------------------------------------------
(* Claims about the vary mask and the information criteria (Spec).         *)

\* C1: set_vary_params(values) with len(values) equal to the number of varying
\* slots, followed at once by get_vary_params(), ends without an error and
\* returns exactly values, in the same order.
C1_RoundTrip ==
    (/\ last.op = "get_vary_params"
     /\ last.after.op = "set_vary_params"
     /\ Len(last.after.values) = last.after.nvary)
    => (last.after.err = "none" /\ last.ret = last.after.values)

\* the round trip happened through a cached mask that no longer matched the flags
C1_Witness ==
    /\ last.op = "get_vary_params"
    /\ last.after.op = "set_vary_params"
    /\ Len(last.after.values) = last.after.nvary
    /\ last.after.stale
    /\ Len(last.ret) >= 1

\* C2: set_vary_params(values) writes values[i] into the i-th slot that is
\* varying at the time of the call and leaves the value of every slot whose
\* vary flag is false at that time unchanged.
C2_WritesCurrentVaryingSlots ==
    [][last'.op = "set_vary_params" =>
         LET cur == WhereVary(vector, 1)
             m == Min(Len(cur), Len(last'.values))
         IN \A s \in 1..Len(vector) :
               /\ \A i \in 1..m : cur[i] = s => vector'[s].value = last'.values[i]
               /\ ~vector[s].vary => vector'[s].value = vector[s].value]_vars

\* C3: set_vary_params(values) ends in an error whenever len(values) differs
\* from the number of slots that are varying at the time of the call.
C3_LengthMismatchIsAnError ==
    (last.op = "set_vary_params" /\ Len(last.values) # last.nvary)
    => last.err # "none"

-----------------------------------------------------------------------------
(* The object graph: params dictionaries, vectors, RVLikelihood objects.   *)
(* Names are sequences of tokens: 'gamma' + '_a' is <<"gamma", "_", "a">>.  *)
(* A params dictionary is the ordered sequence of its items.               *)

Parameter(value, vary, linear) == [value |-> value, vary |-> vary, linear |-> linear]

\* radvel.model.Parameter(value=0.0)
DefaultParameter == Parameter(F(0), TRUE, FALSE)

Has(d, k) == \E i \in 1..Len(d) : d[i].k = k
Get(d, k) == d[CHOOSE i \in 1..Len(d) : d[i].k = k].v
Put(d, k, v) ==
    IF Has(d, k) THEN [i \in 1..Len(d) |-> IF d[i].k = k THEN [k |-> k, v |-> v] ELSE d[i]]
    ELSE Append(d, [k |-> k, v |-> v])

\* suffix.startswith('_') ? suffix[1:] : suffix, lines 331-334
StripSuffix(suffix) ==
    IF Len(suffix) > 0 /\ Head(suffix) = "_" THEN Tail(suffix) ELSE suffix

\* the external model callable, model(x), at one time stamp
RVModel(x) == F(2 * x)

RECURSIVE RegisterParams(_, _)
\* lines 36-37 and 42-43 for each key: a missing key gets Parameter(value=0.0)
RegisterParams(d, keys) ==
    IF keys = <<>> THEN d
    ELSE RegisterParams(IF Has(d, Head(keys)) THEN d
                        ELSE Put(d, Head(keys), DefaultParameter), Tail(keys))

RECURSIVE RegisterIndicesShift(_, _, _)
\* A mutation: a new key takes slot 1 and the registered names move up by one.
RegisterIndicesShift(indices, n, keys) ==
    IF keys = <<>> THEN indices
    ELSE IF Head(keys) \in DOMAIN indices THEN RegisterIndicesShift(indices, n, Tail(keys))
    ELSE RegisterIndicesShift([k \in DOMAIN indices |-> indices[k] + 1] @@ (Head(keys) :> 1),
                              n + 1, Tail(keys))

RECURSIVE RegisterIndices(_, _, _)
\* lines 34, 38-40 and 44-46: a missing key gets the next slot number n
RegisterIndices(indices, n, keys) ==
    IF keys = <<>> THEN indices
    ELSE IF Head(keys) \in DOMAIN indices THEN RegisterIndices(indices, n, Tail(keys))
    ELSE RegisterIndices(indices @@ (Head(keys) :> n), n + 1, Tail(keys))

\* vector.dict_to_vector(), line 49: the rows of the slots that were just
\* registered are filled from the params dictionary; the others are kept
dict_to_vector(rows, indices, d) ==
    LET n == Cardinality(DOMAIN indices)
        NameOf(slot) == CHOOSE k \in DOMAIN indices : indices[k] = slot
    IN [slot \in 1..n |->
          IF slot <= Len(rows) THEN rows[slot]
          ELSE IF Has(d, NameOf(slot)) THEN Get(d, NameOf(slot))
          ELSE DefaultParameter]

\* RVLikelihood.__init__, lines 325-349, with Likelihood.__init__, lines 25-50:
\* the new object, and the params dictionary and vector it registered into
RVLikelihoodInit(pobjs, vs, p, v, suffix, x, y, yerr) ==
    LET gamma_param == <<"gamma">> \o suffix
        jit_param == <<"jit">> \o suffix
        extra_params == <<gamma_param, jit_param>>
        d == RegisterParams(pobjs[p], extra_params)
        indices == RegisterIndices(vs[v].indices, Len(vs[v].rows) + 1, extra_params)
        rows == dict_to_vector(vs[v].rows, indices, d)
    IN [like |-> [params |-> p, vector |-> v,
                  gamma_param |-> gamma_param, jit_param |-> jit_param,
                  suffix |-> StripSuffix(suffix),
                  telvec |-> [i \in 1..Len(x) |-> StripSuffix(suffix)],
                  x |-> x, y |-> y, yerr |-> yerr,
                  gamma_index |-> indices[gamma_param],
                  jit_index |-> indices[jit_param]],
        pobjs |-> [pobjs EXCEPT ![p] = d],
        vs |-> [vs EXCEPT ![v] = [indices |-> indices, rows |-> rows]]]

\* Likelihood(model, x, y, yerr, extra_params, decorr_params), lines 25-50:
\* the two loops share the counter n, so they register extra_params and then
\* decorr_params as one list
NewLikelihood(p, v, extra_params, decorr_params) ==
    LET keys == extra_params \o decorr_params
        d == RegisterParams(paramObjs[p], keys)
        indices == RegisterIndices(vecs[v].indices, Len(vecs[v].rows) + 1, keys)
    IN /\ paramObjs' = [paramObjs EXCEPT ![p] = d]
       /\ vecs' = [vecs EXCEPT ![v] = [indices |-> indices,
                                       rows |-> dict_to_vector(vecs[v].rows, indices, d)]]
       /\ last' = [op |-> "Likelihood"]
       /\ UNCHANGED <<vector, vary_params, ny, likes, comp, kernel>>

\* RVLikelihood(model, t, vel, errvel, suffix=suffix)
NewRV(p, v, suffix, x, y, yerr) ==
    LET r == RVLikelihoodInit(paramObjs, vecs, p, v, suffix, x, y, yerr)
    IN /\ ~comp.tried
       /\ likes' = Append(likes, r.like)
       /\ paramObjs' = r.pobjs
       /\ vecs' = r.vs
       /\ last' = [op |-> "RVLikelihood", like |-> Len(likes) + 1]
       /\ UNCHANGED <<vector, vary_params, ny, comp, kernel>>

-----------------------------------------------------------------------------
(* RVLikelihood: residuals, logprob.  Likelihoods are built without        *)
(* decorrelation variables (decorr_vars=[]), so lines 366-377 do not run.  *)

\* self.yerr**2 + self.vector.vector[self.jit_index][0]**2, per point
Variances(like, jit) ==
    Array([i \in 1..Len(like.x) |-> FAdd(FSq(like.yerr[i]), FSq(jit))])

\* self.y - mod, per point
Detrended(like) ==
    Array([i \in 1..Len(like.x) |-> FSub(like.y[i], RVModel(like.x[i]))])

\* A mutation: the plain mean of y - mod instead of the weighted one.
ZtilUnweighted(like, rows) ==
    Once(LAMBDA z : IF IsNan(z) THEN F(0) ELSE z,
         Once(LAMBDA dy : FDiv(FSum(dy), F(Len(dy))), Detrended(like)))

\* lines 358-361
Ztil(like, rows) ==
    Once(LAMBDA z : IF IsNan(z) THEN F(0) ELSE z,
         Once(LAMBDA v :
                 Once(LAMBDA dy :
                         FDiv(FSum([i \in 1..Len(v) |-> FDiv(dy[i], v[i])]),
                              FSum([i \in 1..Len(v) |-> FDiv(F(1), v[i])])),
                      Detrended(like)),
              Variances(like, rows[like.jit_index].value)))

\* the condition of lines 357 and 401-402
LinearGamma(like, rows) ==
    rows[like.gamma_index].linear /\ ~rows[like.gamma_index].vary

\* RVLikelihood.residuals, lines 351-378: the rows it leaves and the array
\* it returns
RVResidualsOp(like, rows) ==
    Once(LAMBDA rows2 :
            [rows |-> rows2,
             res |-> Array([i \in 1..Len(like.x) |->
                              FSub(FSub(like.y[i], rows2[like.gamma_index].value),
                                   RVModel(like.x[i]))])],
         IF LinearGamma(like, rows)
         THEN [rows EXCEPT ![like.gamma_index].value = Ztil(like, rows)]
         ELSE rows)

\* A log-likelihood is kept in closed form: the record [chi2, pen, nrm] stands
\* for  -0.5*chi2 - SUM_{v in pen} ln(sqrt(2 pi v)) + SUM_{s in nrm} ln(sqrt(2 pi s)).
LPZero == [chi2 |-> F(0), pen |-> EmptyBag, nrm |-> EmptyBag]

\* _logprob += value, line 289
LPAdd(a, b) ==
    [chi2 |-> FAdd(a.chi2, b.chi2), pen |-> a.pen (+) b.pen, nrm |-> a.nrm (+) b.nrm]

RECURSIVE SeqToBag(_)
SeqToBag(s) ==
    IF s = <<>> THEN EmptyBag ELSE SetToBag({Head(s)}) (+) SeqToBag(Tail(s))

\* loglike_jitter(residuals, sigma, sigma_jit), lines 657-675
loglike_jitter(residuals, sigma, sigma_jit) ==
    Once(LAMBDA sum_sig_quad :
            [chi2 |-> FSum([i \in 1..Len(sigma) |->
                              FDiv(FSq(residuals[i]), sum_sig_quad[i])]),
             pen |-> SeqToBag(sum_sig_quad),
             nrm |-> EmptyBag],
         Array([i \in 1..Len(sigma) |-> FAdd(FSq(sigma[i]), FSq(sigma_jit))]))

\* RVLikelihood.logprob, lines 389-406
RVLogprobOp(like, rows) ==
    LET sigma_jit == rows[like.jit_index].value
        sigz == Once(LAMBDA v : FDiv(F(1), FSum([i \in 1..Len(v) |-> FDiv(F(1), v[i])])),
                     Variances(like, sigma_jit))
    IN Once(LAMBDA r :
               Once(LAMBDA loglike :
                       [rows |-> r.rows,
                        ret |-> IF LinearGamma(like, r.rows)
                                THEN [loglike EXCEPT !.nrm = @ (+) SetToBag({sigz})]
                                ELSE loglike],
                    loglike_jitter(r.res, like.yerr, sigma_jit)),
            RVResidualsOp(like, rows))

RowsOf(like) == vecs[like.vector].rows

\* likes[i].residuals()
RVResiduals(i) ==
    LET r == RVResidualsOp(likes[i], RowsOf(likes[i]))
    IN /\ vecs' = [vecs EXCEPT ![likes[i].vector].rows = r.rows]
       /\ last' = [op |-> "rv_residuals", like |-> i, ret |-> r.res,
                   wrote |-> LinearGamma(likes[i], RowsOf(likes[i]))]
       /\ UNCHANGED <<vector, vary_params, ny, paramObjs, likes, comp, kernel>>

-----------------------------------------------------------------------------
(* CompositeLikelihood.                                                    *)

\* radvel.model.Parameter._equals: the same value and the same vary flag
Parameter_equals(a, b) == a.value = b.value /\ a.vary = b.vary

RECURSIVE MergeParamsNoInsert(_, _, _)
\* A mutation: a name the first child lacks is not added to params.
MergeParamsNoInsert(d, items, i) ==
    IF i > Len(items) THEN [ok |-> TRUE, d |-> d]
    ELSE IF Has(d, items[i].k)
         THEN (IF Parameter_equals(items[i].v, Get(d, items[i].k))
               THEN MergeParamsNoInsert(d, items, i + 1)
               ELSE [ok |-> FALSE, d |-> d])
    ELSE MergeParamsNoInsert(d, items, i + 1)

RECURSIVE MergeParams(_, _, _)
\* lines 269-273, over the items of like.params in dictionary order: whether
\* every assertion passed, and the dictionary params as it was left
MergeParams(d, items, i) ==
    IF i > Len(items) THEN [ok |-> TRUE, d |-> d]
    ELSE IF Has(d, items[i].k)
         THEN (IF Parameter_equals(items[i].v, Get(d, items[i].k))
               THEN MergeParams(d, items, i + 1)
               ELSE [ok |-> FALSE, d |-> d])
    ELSE MergeParams(Put(d, items[i].k, items[i].v), items, i + 1)

\* like.vector is vector, line 275
SameVector(a, b) == a = b

RECURSIVE CompositeLoop(_, _, _, _)
\* lines 253-276, from child i on
CompositeLoop(like_list, vs, i, acc) ==
    IF i > Len(like_list) THEN acc
    ELSE LET like == like_list[i]
             own == vs[like.vector]
             g == own.rows[own.indices[like.gamma_param]].value
             merged == MergeParams(acc.pobjs[acc.params], acc.pobjs[like.params], 1)
             acc2 == [acc EXCEPT
                        !.x = @ \o like.x,
                        !.y = @ \o [j \in 1..Len(like.y) |-> FSub(like.y[j], g)],
                        !.yerr = @ \o like.yerr,
                        !.telvec = @ \o like.telvec,
                        !.pobjs = [@ EXCEPT ![acc.params] = merged.d]]
         IN IF ~merged.ok THEN [acc2 EXCEPT !.err = "AssertionError"]
            ELSE IF ~SameVector(like.vector, acc.vector)
                 THEN [acc2 EXCEPT !.err = "AssertionError"]
            ELSE CompositeLoop(like_list, vs, i + 1, acc2)

\* CompositeLikelihood.__init__, lines 237-281
CompositeInit(like_list, pobjs, vs) ==
    IF like_list = <<>> THEN [err |-> "IndexError", pobjs |-> pobjs]
    ELSE LET like0 == like_list[1]
         IN CompositeLoop(like_list, vs, 2,
                [err |-> "none", params |-> like0.params, vector |-> like0.vector,
                 x |-> like0.x, y |-> like0.y, yerr |-> like0.yerr,
                 telvec |-> like0.telvec, pobjs |-> pobjs])

\* the object a successful construction leaves
CompositeObject(r, kind) ==
    [built |-> TRUE, tried |-> TRUE, kind |-> kind,
     params |-> r.params, vector |-> r.vector,
     x |-> r.x, y |-> r.y, yerr |-> r.yerr, telvec |-> r.telvec,
     N |-> Len(r.x),
     like_list |-> [i \in 1..Len(likes) |-> i]]

FailedComp == [built |-> FALSE, tried |-> TRUE]

\* CompositeLikelihood(like_list) with like_list = the likelihoods built so far
ConstructComposite ==
    LET r == CompositeInit(likes, paramObjs, vecs)
    IN /\ ~comp.tried
       /\ comp' = IF r.err = "none" THEN CompositeObject(r, "composite") ELSE FailedComp
       /\ paramObjs' = r.pobjs
       /\ last' = [op |-> "CompositeLikelihood", err |-> r.err]
       /\ UNCHANGED <<vector, vary_params, ny, vecs, likes, kernel>>

\* A mutation: the first child is skipped.
EvalOrderSkipFirst(like_list) == Tail(like_list)

\* for like in self.like_list, line 288
EvalOrder(like_list) == like_list

RECURSIVE CompositeLogprobLoop(_, _, _)
\* lines 287-290: the children's logprob() calls, each on the rows the
\* previous one left
CompositeLogprobLoop(order, rows, acc) ==
    IF order = <<>> THEN [rows |-> rows, ret |-> acc.ret, evals |-> acc.evals,
                          vals |-> acc.vals]
    ELSE Once(LAMBDA r :
                 Once(LAMBDA acc2 : CompositeLogprobLoop(Tail(order), r.rows, acc2),
                      [ret |-> LPAdd(acc.ret, r.ret),
                       evals |-> Append(acc.evals, Head(order)),
                       vals |-> Append(acc.vals, r.ret)]),
              RVLogprobOp(likes[Head(order)], rows))

\* CompositeLikelihood.logprob, lines 283-290
CompositeLogprob ==
    /\ comp.built
    /\ comp.kind = "composite"
    /\ LET r == CompositeLogprobLoop(EvalOrder(comp.like_list), vecs[comp.vector].rows,
                    [ret |-> LPZero, evals |-> <<>>, vals |-> <<>>])
       IN /\ vecs' = [vecs EXCEPT ![comp.vector].rows = r.rows]
          /\ last' = [op |-> "composite_logprob", ret |-> r.ret, evals |-> r.evals,
                      vals |-> r.vals, pre |-> vecs[comp.vector].rows]
    /\ UNCHANGED <<vector, vary_params, ny, paramObjs, likes, comp, kernel>>

-----------------------------------------------------------------------------
(* The vector a model is created with (radvel.model.Vector(params)): one   *)
(* slot per parameter, in dictionary order.                                *)

VectorOf(d) ==
    [indices |-> [k \in {d[i].k : i \in 1..Len(d)} |->
                     CHOOSE i \in 1..Len(d) : d[i].k = k],
     rows |-> [i \in 1..Len(d) |-> d[i].v]]

Item(k, v) == [k |-> k, v |-> v]

-----------------------------------------------------------------------------
(* The construction specification: children on one or two params           *)
(* dictionaries and one or two vectors, combined into a composite.         *)

MaxLikes == 3

SuffixA == <<"_", "a">>
SuffixB == <<"_", "b">>

\* what a setup file may have put under the name 'per1' before the
\* likelihoods are built
PerChoices ==
    {<<>>, <<Item(<<"per1">>, Parameter(F(0), TRUE, FALSE))>>,
           <<Item(<<"per1">>, Parameter(F(1), TRUE, FALSE))>>,
           <<Item(<<"per1">>, Parameter(F(0), FALSE, FALSE))>>}

\* the params dictionaries and the vectors the children are built on
ParamIds == {1, 2, 3}
VecIds == {1, 2}

OnePoint == [x |-> <<0>>, y |-> <<F(1)>>, yerr |-> <<F(1)>>]

InitComposite ==
    /\ paramObjs \in [ParamIds -> PerChoices]
    /\ vecs = [v \in VecIds |-> VectorOf(paramObjs[v])]
    /\ likes = <<>>
    /\ comp = NoComp
    /\ kernel = NoKernel
    /\ last = NoOp
    /\ vector = <<>>
    /\ vary_params = NoMask
    /\ ny = 0

NextComposite ==
    \/ \E p \in ParamIds, v \in VecIds :
          /\ Len(likes) < MaxLikes
          /\ NewRV(p, v, SuffixA, OnePoint.x, OnePoint.y, OnePoint.yerr)
    \/ ConstructComposite

SpecComposite == InitComposite /\ [][NextComposite]_vars

\* the children agree: one vector, and one (value, vary) per shared name
Consistent(like_list, pobjs) ==
    /\ \A i \in 1..Len(like_list) : like_list[i].vector = like_list[1].vector
    /\ \A i, j \in 1..Len(like_list) :
          LET di == pobjs[like_list[i].params]
              dj == pobjs[like_list[j].params]
          IN \A a \in 1..Len(di), b \in 1..Len(dj) :
                di[a].k = dj[b].k =>
                    (di[a].v.value = dj[b].v.value /\ di[a].v.vary = dj[b].v.vary)

\* C5: constructing a CompositeLikelihood from a non-empty list of children
\* succeeds exactly when all children hold the same vector and every name that
\* more than one child's params has carries the same (value, vary) in all of
\* them; otherwise it ends in an AssertionError.
C5_ConstructionChecks ==
    [][(last'.op = "CompositeLikelihood" /\ likes # <<>>) =>
          /\ last'.err \in {"none", "AssertionError"}
          /\ (last'.err = "none" <=> Consistent(likes, paramObjs))
          /\ (comp'.built <=> last'.err = "none")]_vars

\* a composite was built from children on three different params dictionaries
\* that share a name
C5_Witness ==
    /\ last.op = "CompositeLikelihood"
    /\ comp.built
    /\ {likes[i].params : i \in 1..Len(likes)} = ParamIds
    /\ \A p \in ParamIds : Has(paramObjs[p], <<"per1">>)

-----------------------------------------------------------------------------
(* The RV specification: children on one params dictionary and one vector, *)
(* their residuals() and logprob(), and the composite's logprob().         *)

MaxRVLikes == 2

\* what the setup file put under 'gamma' + suffix and 'jit' + suffix: both
\* offsets free, fixed, linear and free, or linear and fixed; one jitter value
\* for both instruments; the second offset equal to the first or not
OffsetFlags ==
    {[vary |-> TRUE, linear |-> FALSE], [vary |-> FALSE, linear |-> FALSE],
     [vary |-> TRUE, linear |-> TRUE], [vary |-> FALSE, linear |-> TRUE]}

Preset(suffix, gamma, jit) ==
    <<Item(<<"gamma">> \o suffix, gamma), Item(<<"jit">> \o suffix, jit)>>

\* the dataset (t, vel, errvel) of each instrument; the second one has a
\* point without measurement error
Datasets(suffix) ==
    IF suffix = SuffixA
    THEN [x |-> <<1, 2>>, y |-> <<F(3), F(7)>>, yerr |-> <<F(1), F(2)>>]
    ELSE [x |-> <<0, 1>>, y |-> <<F(2), F(3)>>, yerr |-> <<F(0), F(1)>>]

InitRV ==
    /\ \E f \in OffsetFlags, j \in {0, 1}, gb \in {0, 1} :
          paramObjs =
             <<Preset(SuffixA, Parameter(F(1), f.vary, f.linear),
                               Parameter(F(j), TRUE, FALSE))
               \o Preset(SuffixB, Parameter(F(gb), f.vary, f.linear),
                                  Parameter(F(j), TRUE, FALSE))>>
    /\ vecs = <<VectorOf(paramObjs[1])>>
    /\ likes = <<>>
    /\ comp = NoComp
    /\ kernel = NoKernel
    /\ last = NoOp
    /\ vector = <<>>
    /\ vary_params = NoMask
    /\ ny = 0

NextRV ==
    \/ \E suffix \in {SuffixA, SuffixB} :
          /\ Len(likes) < MaxRVLikes
          /\ NewRV(1, 1, suffix, Datasets(suffix).x, Datasets(suffix).y,
                   Datasets(suffix).yerr)
    \/ \E i \in 1..Len(likes) : RVResiduals(i)
    \/ ConstructComposite
    \/ CompositeLogprob

SpecRV == InitRV /\ [][NextRV]_vars

-----------------------------------------------------------------------------
(* Claims about RVLikelihood and CompositeLikelihood.logprob (SpecRV).     *)

RECURSIVE RowsAfter(_, _)
\* the rows of the vector once the first k children ran residuals() on rows
RowsAfter(k, rows) ==
    IF k = 0 THEN rows ELSE RVResidualsOp(likes[k], RowsAfter(k - 1, rows)).rows

RECURSIVE ConcatData(_)
\* the dataset that the first k children's datasets are a split of
ConcatData(k) ==
    IF k = 1 THEN [x |-> likes[1].x, y |-> likes[1].y, yerr |-> likes[1].yerr]
    ELSE LET d == ConcatData(k - 1)
         IN [x |-> d.x \o likes[k].x, y |-> d.y \o likes[k].y,
             yerr |-> d.yerr \o likes[k].yerr]

\* the single RVLikelihood on the unsplit dataset, with the first child's slots
Unsplit ==
    LET d == ConcatData(Len(likes))
    IN [likes[1] EXCEPT !.x = d.x, !.y = d.y, !.yerr = d.yerr]

\* every child has the same offset value, none of the offsets is eliminated
\* (linear and not varying), and every child has the same jitter value
EqualFixedOffsetsSharedJitter(rows) ==
    \A i \in 1..Len(likes) :
        /\ rows[likes[i].gamma_index].value = rows[likes[1].gamma_index].value
        /\ rows[likes[i].jit_index].value = rows[likes[1].jit_index].value
        /\ ~(rows[likes[i].gamma_index].linear /\ ~rows[likes[i].gamma_index].vary)

RECURSIVE LPSum(_)
\* the sum of a sequence of log-likelihood values
LPSum(vals) ==
    IF vals = <<>> THEN LPZero
    ELSE [chi2 |-> FAdd(Head(vals).chi2, LPSum(Tail(vals)).chi2),
          pen |-> Head(vals).pen (+) LPSum(Tail(vals)).pen,
          nrm |-> Head(vals).nrm (+) LPSum(Tail(vals)).nrm]

\* C4: CompositeLikelihood.logprob() evaluates each child's logprob() exactly
\* once, in list order, and returns the sum of the values; for a dataset split
\* into children with equal fixed offsets and a shared jitter that sum is the
\* logprob of the single RVLikelihood on the unsplit dataset.
C4_CompositeLogprobIsSum ==
    last.op = "composite_logprob" =>
        /\ last.evals = [i \in 1..Len(likes) |-> i]
        /\ Len(last.vals) = Len(likes)
        /\ \A i \in 1..Len(likes) :
              last.vals[i] = RVLogprobOp(likes[i], RowsAfter(i - 1, last.pre)).ret
        /\ last.ret = LPSum(last.vals)
        /\ (Len(likes) >= 2 /\ EqualFixedOffsetsSharedJitter(last.pre)
              => last.ret = RVLogprobOp(Unsplit, last.pre).ret)

\* a dataset split over two instruments with equal fixed offsets was evaluated
C4_Witness ==
    /\ last.op = "composite_logprob"
    /\ Len(likes) = 2
    /\ likes[1].suffix # likes[2].suffix
    /\ EqualFixedOffsetsSharedJitter(last.pre)
    /\ last.ret.chi2 # F(0)

\* z is the inverse-variance-weighted mean of y - model(x), or 0 where that
\* mean is nan (a point of zero variance)
IsWeightedMean(like, rows, z) ==
    LET jit == rows[like.jit_index].value
        var == [i \in 1..Len(like.x) |-> FAdd(FSq(like.yerr[i]), FSq(jit))]
    IN IF \A i \in 1..Len(var) : var[i] # F(0)
       THEN /\ IsFin(z)
            /\ FSum([i \in 1..Len(var) |->
                       FDiv(FSub(FSub(like.y[i], RVModel(like.x[i])), z), var[i])]) = F(0)
       ELSE z = F(0)

\* C9: RVLikelihood.residuals() writes nothing but the value of its own gamma
\* slot, and that only when the slot is linear and not varying: then the value
\* becomes ztil, the inverse-variance-weighted mean of y - model (0 if nan).
C9_ResidualsWritesOnlyGamma ==
    [][last'.op = "rv_residuals" =>
         LET like == likes[last'.like]
             rows == vecs[like.vector].rows
             rows2 == vecs'[like.vector].rows
             gi == like.gamma_index
         IN /\ \A v \in DOMAIN vecs :
                  /\ vecs'[v].indices = vecs[v].indices
                  /\ v # like.vector => vecs'[v] = vecs[v]
            /\ Len(rows2) = Len(rows)
            /\ \A slot \in 1..Len(rows) : slot # gi => rows2[slot] = rows[slot]
            /\ rows2[gi].vary = rows[gi].vary
            /\ rows2[gi].linear = rows[gi].linear
            /\ IF rows[gi].linear /\ ~rows[gi].vary
               THEN IsWeightedMean(like, rows, rows2[gi].value)
               ELSE rows2[gi].value = rows[gi].value
            /\ paramObjs' = paramObjs]_vars

\* residuals() wrote a weighted mean that is not a whole number
C9_Witness ==
    /\ last.op = "rv_residuals"
    /\ last.wrote
    /\ vecs[1].rows[likes[last.like].gamma_index].value[3] # 1

-----------------------------------------------------------------------------
(* GPLikelihood.  The kernel object, the covariance matrices it returns    *)
(* and scipy's Cholesky routines are outside this file: a covariance       *)
(* matrix is known here by whether its entries are all finite and whether  *)
(* it is positive-definite, and the kernel by the pair of time arrays its  *)
(* distances were last computed from.                                      *)

\* the covariance matrices the kernel can hand back
Matrices == [finite : BOOLEAN, posdef : BOOLEAN]

\* scipy.linalg.cho_factor(K): check_finite raises ValueError, a matrix that
\* is not positive-definite raises LinAlgError
cho_factor(K) ==
    IF ~K.finite THEN "ValueError"
    ELSE IF ~K.posdef THEN "LinAlgError"
    ELSE "none"

\* A mutation: only LinAlgError is caught.
CaughtOnlyLinAlgError(exc) == exc = "LinAlgError"

\* except (np.linalg.linalg.LinAlgError, ValueError), line 490
Caught(exc) == exc \in {"LinAlgError", "ValueError"}

\* the value of line 487, which is not evaluated here
Like == <<"like", 0, 1>>

\* np.unique(self.telvec), line 428
Insts(telvec) == {telvec[i] : i \in 1..Len(telvec)}

\* GPLikelihood.__init__, lines 419-439, after CompositeLikelihood.__init__
GPInit(like_list, hnames, pobjs, vs) ==
    LET r == CompositeInit(like_list, pobjs, vs)
    IN IF r.err # "none" THEN r
       ELSE IF \E i \in 1..Len(hnames) : ~Has(r.pobjs[r.params], hnames[i])
            THEN [r EXCEPT !.err = "KeyError"]
       ELSE r

\* update_kernel_params, lines 441-446: the values the kernel's
\* hyperparameters are given
update_kernel_params(hnames, v) ==
    [k \in {hnames[i] : i \in 1..Len(hnames)} \cap DOMAIN v.indices |->
        v.rows[v.indices[k]].value]

\* 'gamma_{}'.format(self.insts[i]), lines 452 and 462
GammaKey(inst) == <<"gamma", "_">> \o inst

\* 'gp_amp_{}'.format(self.insts[i]), line 434
AmpKey(inst) == <<"gp_amp", "_">> \o inst

\* the lookups of lines 451-453 and 461-463 end in a KeyError
GammaLookupFails(c, v) == \E inst \in Insts(c.telvec) : GammaKey(inst) \notin DOMAIN v.indices

\* gammas, lines 450-453: each point gets its instrument's offset value
Gammas(c, v) ==
    [i \in 1..c.N |-> v.rows[v.indices[GammaKey(c.telvec[i])]].value]

\* GPLikelihood._resids, lines 448-456
GPResidsOp(c, v) ==
    IF GammaLookupFails(c, v) THEN [err |-> "KeyError", res |-> <<>>]
    ELSE [err |-> "none",
          res |-> [i \in 1..c.N |->
                     FSub(FSub(c.y[i], RVModel(c.x[i])), Gammas(c, v)[i])]]

\* GPLikelihood.logprob, lines 469-492, with the matrix K the kernel returns
GPLogprobOp(c, v, k, K) ==
    LET r == GPResidsOp(c, v)
        exc == cho_factor(K)
    IN IF r.err # "none"
       THEN [err |-> r.err, ret |-> NaN, warned |-> FALSE, cho |-> "not called",
             covdist |-> <<>>]
       ELSE IF exc = "none"
            THEN [err |-> "none", ret |-> Like, warned |-> FALSE, cho |-> exc,
                  covdist |-> k.dist]
       ELSE IF Caught(exc)
            THEN [err |-> "none", ret |-> NInf, warned |-> TRUE, cho |-> exc,
                  covdist |-> k.dist]
       ELSE [err |-> exc, ret |-> NaN, warned |-> FALSE, cho |-> exc,
             covdist |-> k.dist]

\* GPLikelihood.predict, lines 495-563: how the call ends and the distances
\* the kernel is left with.  amp_param_name is <<>> for None.
PredictExit(c, v, k, xpred, amp_param_name, K, KsFinite) ==
    LET r == GPResidsOp(c, v)
    IN \* line 516: _resids raises before any distance is recomputed
       IF r.err # "none" THEN [err |-> r.err, dist |-> k.dist]
       \* lines 528 and 531, after compute_distances(xpred, self.x) of line
       \* 521: the amplitude names are looked up in the kernel's hyperparameters
       ELSE IF /\ amp_param_name # <<>>
               /\ \/ amp_param_name \notin DOMAIN k.hparams
                  \/ \E inst \in Insts(c.telvec) : AmpKey(inst) \notin DOMAIN k.hparams
            THEN [err |-> "KeyError", dist |-> <<xpred, c.x>>]
       \* line 542: cho_factor(K) is not inside a try
       ELSE IF cho_factor(K) # "none"
            THEN [err |-> cho_factor(K), dist |-> <<xpred, c.x>>]
       \* line 556, after compute_distances(xpred, xpred) of line 546:
       \* cho_solve(L, Ks.T) checks Ks for nan and inf
       ELSE IF ~KsFinite THEN [err |-> "ValueError", dist |-> <<xpred, xpred>>]
       \* line 561
       ELSE [err |-> "none", dist |-> <<c.x, c.x>>]

\* GPLikelihood(like_list, hnames=hnames)
ConstructGP(hnames) ==
    LET r == GPInit(likes, hnames, paramObjs, vecs)
    IN /\ ~comp.tried
       /\ comp' = IF r.err = "none"
                  THEN CompositeObject(r, "gp") @@ [hnames |-> hnames]
                  ELSE FailedComp
       /\ kernel' = IF r.err = "none"
                    THEN [built |-> TRUE, dist |-> <<r.x, r.x>>,
                          hparams |-> [k \in {hnames[i] : i \in 1..Len(hnames)} |->
                                          Get(r.pobjs[r.params], k).value]]
                    ELSE kernel
       /\ paramObjs' = r.pobjs
       /\ last' = [op |-> "GPLikelihood", err |-> r.err]
       /\ UNCHANGED <<vector, vary_params, ny, vecs, likes>>

GPBuilt == comp.built /\ comp.kind = "gp"

\* gp._resids()
GPResids ==
    /\ GPBuilt
    /\ LET r == GPResidsOp(comp, vecs[comp.vector])
       IN last' = [op |-> "gp_resids", err |-> r.err, ret |-> r.res]
    /\ UNCHANGED <<vector, vary_params, ny, paramObjs, vecs, likes, comp, kernel>>

\* np.sqrt of a non-negative value, kept as the value it is the root of
Sqrt(a) == <<"sqrt", a>>

\* RVLikelihood.errorbars, lines 380-387
RVErrorbars(like, rows) ==
    Array([i \in 1..Len(like.yerr) |->
             Sqrt(FAdd(FSq(like.yerr[i]), FSq(rows[like.jit_index].value)))])

RECURSIVE CompositeErrorbars(_, _)
\* CompositeLikelihood.errorbars, lines 303-311: the children's errorbars()
\* appended in list order
CompositeErrorbars(like_list, rows) ==
    IF like_list = <<>> THEN <<>>
    ELSE RVErrorbars(likes[Head(like_list)], rows)
            \o CompositeErrorbars(Tail(like_list), rows)

\* gp.logprob(); errorbars is the argument of compute_covmatrix, line 475
GPLogprob(K) ==
    /\ GPBuilt
    /\ LET r == GPLogprobOp(comp, vecs[comp.vector], kernel, K)
       IN last' = [op |-> "gp_logprob", err |-> r.err, ret |-> r.ret,
                   warned |-> r.warned, cho |-> r.cho, covdist |-> r.covdist,
                   errorbars |-> IF r.cho = "not called" THEN <<>>
                                 ELSE CompositeErrorbars(comp.like_list,
                                                         vecs[comp.vector].rows)]
    /\ kernel' = [kernel EXCEPT
                    !.hparams = update_kernel_params(comp.hnames, vecs[comp.vector])]
    /\ UNCHANGED <<vector, vary_params, ny, paramObjs, vecs, likes, comp>>

\* gp.predict(xpred, amp_param_name)
GPPredict(xpred, amp_param_name, K, KsFinite) ==
    /\ GPBuilt
    /\ LET k == [kernel EXCEPT
                   !.hparams = update_kernel_params(comp.hnames, vecs[comp.vector])]
           r == PredictExit(comp, vecs[comp.vector], k, xpred, amp_param_name, K, KsFinite)
       IN /\ kernel' = [k EXCEPT !.dist = r.dist]
          /\ last' = [op |-> "gp_predict", err |-> r.err, xpred |-> xpred]
    /\ UNCHANGED <<vector, vary_params, ny, paramObjs, vecs, likes, comp>>

\* gp.residuals(), lines 458-467: the gamma lookups, then predict(self.x)
GPResiduals(K, KsFinite) ==
    /\ GPBuilt
    /\ LET v == vecs[comp.vector]
           k == [kernel EXCEPT !.hparams = update_kernel_params(comp.hnames, v)]
           r == PredictExit(comp, v, k, comp.x, <<>>, K, KsFinite)
       IN IF GammaLookupFails(comp, v)
          THEN /\ kernel' = kernel
               /\ last' = [op |-> "gp_residuals", err |-> "KeyError"]
          ELSE /\ kernel' = [k EXCEPT !.dist = r.dist]
               /\ last' = [op |-> "gp_residuals", err |-> r.err]
    /\ UNCHANGED <<vector, vary_params, ny, paramObjs, vecs, likes, comp>>

\* the optimizer's set_vary_params: a new value in one varying slot
OptimizerWrite(slot, value) ==
    /\ vecs[1].rows[slot].vary
    /\ vecs[1].rows[slot].value # value
    /\ vecs' = [vecs EXCEPT ![1].rows[slot].value = value]
    /\ last' = [op |-> "set_vary_params"]
    /\ UNCHANGED <<vector, vary_params, ny, paramObjs, likes, comp, kernel>>

-----------------------------------------------------------------------------
(* The GP specification: children on one params dictionary and one         *)
(* vector, a GPLikelihood over them, and an optimizer moving the offsets.  *)

MaxGPLikes == 2

GPPer == <<"gp_per">>

\* the dataset of each instrument
GPData(suffix) ==
    IF suffix = SuffixA THEN [x |-> <<1>>, y |-> <<F(5)>>, yerr |-> <<F(1)>>]
    ELSE [x |-> <<2, 3>>, y |-> <<F(6), F(8)>>, yerr |-> <<F(1), F(2)>>]

\* the times predict is asked about: the training times or new ones
XPreds(c) == IF c.built THEN {c.x, <<4>>} ELSE {<<4>>}

InitGP ==
    /\ \E ga \in {0, 2} :
          paramObjs =
             <<<<Item(GPPer, Parameter(F(3), FALSE, FALSE))>>
               \o Preset(SuffixA, Parameter(F(ga), TRUE, FALSE),
                                  Parameter(F(1), FALSE, FALSE))
               \o Preset(SuffixB, Parameter(F(2), TRUE, FALSE),
                                  Parameter(F(1), FALSE, FALSE))>>
    /\ vecs = <<VectorOf(paramObjs[1])>>
    /\ likes = <<>>
    /\ comp = NoComp
    /\ kernel = NoKernel
    /\ last = NoOp
    /\ vector = <<>>
    /\ vary_params = NoMask
    /\ ny = 0

NextGP ==
    \/ \E suffix \in {SuffixA, SuffixB} :
          /\ Len(likes) < MaxGPLikes
          /\ NewRV(1, 1, suffix, GPData(suffix).x, GPData(suffix).y, GPData(suffix).yerr)
    \/ \E hnames \in {<<GPPer>>, <<GPPer, <<"gp_length">> >>} : ConstructGP(hnames)
    \/ \E slot \in 1..Len(vecs[1].rows) : OptimizerWrite(slot, F(4))
    \/ GPResids
    \/ \E K \in Matrices : GPLogprob(K)
    \/ \E xpred \in XPreds(comp),
          amp \in {<<>>, GPPer, <<"gp_amp_x">>}, K \in Matrices, KsFinite \in BOOLEAN :
          GPPredict(xpred, amp, K, KsFinite)
    \/ \E K \in Matrices, KsFinite \in BOOLEAN : GPResiduals(K, KsFinite)

SpecGP == InitGP /\ [][NextGP]_vars

-----------------------------------------------------------------------------
(* Claims checked under SpecGP.                                            *)

\* C6: whenever the Cholesky factorization in GPLikelihood.logprob() fails (K
\* not positive-definite, or holding nan or inf), logprob() does not raise: it
\* emits a warning and returns exactly -infinity.
C6_CholeskyFailureGivesNegInf ==
    (last.op = "gp_logprob" /\ last.cho \in {"LinAlgError", "ValueError"}) =>
        /\ last.err = "none"
        /\ last.warned
        /\ last.ret = NInf

\* logprob() was called with a covariance matrix holding nan or inf
C6_Witness ==
    /\ last.op = "gp_logprob"
    /\ last.cho = "ValueError"
    /\ last.ret = NInf

\* C7: once a GPLikelihood is built, and after any call into it however the
\* call ends, the kernel's distances are the training-training ones (x, x),
\* and so are the distances every covariance matrix of logprob() is built from.
C7_DistancesAreTrainingTraining ==
    kernel.built =>
        /\ kernel.dist = <<comp.x, comp.x>>
        /\ (last.op = "gp_logprob" /\ last.cho # "not called")
              => last.covdist = <<comp.x, comp.x>>

RECURSIVE OriginalY(_)
\* the measured values of the first k children, in list order
OriginalY(k) == IF k = 0 THEN <<>> ELSE OriginalY(k - 1) \o likes[k].y

\* C10: _resids() gives, for every data point, the point's original measured y
\* minus model(x) minus the current offset value of the point's instrument.
C10_ResidsSubtractOffsetOnce ==
    (last.op = "gp_resids" /\ last.err = "none") =>
        \A i \in 1..comp.N :
            last.ret[i] =
               FSub(FSub(OriginalY(Len(likes))[i], RVModel(comp.x[i])),
                    vecs[comp.vector].rows[
                       vecs[comp.vector].indices[GammaKey(comp.telvec[i])]].value)

-----------------------------------------------------------------------------
(* The registration specification: Likelihood and RVLikelihood objects     *)
(* built on two models, each with its params dictionary and its vector.    *)

MaxIndexLikes == 2

\* suffix strings: '', '_a' and 'a'
SuffixEmpty == <<>>
SuffixBare == <<"a">>

Models == {1, 2}

\* what the setup file put into a model's params before the vector was made
IndexPresets ==
    {<<>>, Preset(SuffixA, Parameter(F(1), TRUE, FALSE), Parameter(F(0), TRUE, FALSE))}

\* names of decorrelation parameters and other extra parameters
ExtraKeys == {<<>>, <<<<"gamma", "_", "a">>, <<"c1", "_", "a">>>>}
DecorrKeys == {<<<<"c1", "_", "a">>, <<"c2", "_", "a">>>>}

InitIndex ==
    /\ paramObjs \in [Models -> IndexPresets]
    /\ vecs = [m \in Models |-> VectorOf(paramObjs[m])]
    /\ likes = <<>>
    /\ comp = NoComp
    /\ kernel = NoKernel
    /\ last = NoOp
    /\ vector = <<>>
    /\ vary_params = NoMask
    /\ ny = 0

NextIndex ==
    \/ \E m \in Models, suffix \in {SuffixEmpty, SuffixA, SuffixBare} :
          /\ Len(likes) < MaxIndexLikes
          /\ NewRV(m, m, suffix, OnePoint.x, OnePoint.y, OnePoint.yerr)
    \/ \E m \in Models, extra \in ExtraKeys, decorr \in DecorrKeys :
          NewLikelihood(m, m, extra, decorr)

SpecIndex == InitIndex /\ [][NextIndex]_vars

Injective(indices) ==
    \A a, b \in DOMAIN indices : indices[a] = indices[b] => a = b

\* C11: over any sequence of Likelihood / RVLikelihood constructions the
\* name-to-slot map of every vector stays injective, a registered name keeps
\* its slot, a new name gets a slot no other name has, and no name is removed.
C11_IndicesInjectiveAppendOnly ==
    [][\A v \in DOMAIN vecs :
          LET old == vecs[v].indices
              new == vecs'[v].indices
          IN /\ Injective(new)
             /\ DOMAIN old \subseteq DOMAIN new
             /\ \A k \in DOMAIN old : new[k] = old[k]
             /\ \A k \in DOMAIN new \ DOMAIN old :
                   /\ \A j \in DOMAIN old : new[k] # old[j]
                   /\ \A j \in DOMAIN new : new[k] = new[j] => j = k]_vars

\* a second RVLikelihood registered new names on a vector that already held
\* the names of a first one and of a plain Likelihood
C11_Witness ==
    /\ last.op = "RVLikelihood"
    /\ Len(likes) = 2
    /\ likes[1].vector = likes[2].vector
    /\ likes[1].gamma_index < likes[2].gamma_index
    /\ <<"c2", "_", "a">> \in DOMAIN vecs[likes[1].vector].indices
    /\ vecs[likes[1].vector].indices[<<"c2", "_", "a">>] < likes[2].gamma_index

\* C12: the uncertainties GPLikelihood.logprob() passes to compute_covmatrix
\* are, for every point, the measurement error yerr of that point (yerr >= 0,
\* so sqrt(yerr^2)), whatever the jitter values are.
C12_ErrorbarsAreJitterFree ==
    (last.op = "gp_logprob" /\ last.cho # "not called") =>
        /\ Len(last.errorbars) = comp.N
        /\ \A i \in 1..comp.N : last.errorbars[i] = Sqrt(FSq(comp.yerr[i]))

-----------------------------------------------------------------------------
(* The suffix specification: a GPLikelihood over children whose suffix is  *)
(* '', '_a' or 'a'.                                                        *)

InitSuffix == InitGP

NextSuffix ==
    \/ \E suffix \in {SuffixEmpty, SuffixA, SuffixBare} :
          /\ Len(likes) < MaxGPLikes
          /\ NewRV(1, 1, suffix, GPData(suffix).x, GPData(suffix).y, GPData(suffix).yerr)
    \/ ConstructGP(<<GPPer>>)
    \/ GPResids
    \/ \E K \in Matrices : GPLogprob(K)
    \/ \E K \in Matrices, KsFinite \in BOOLEAN : GPResiduals(K, KsFinite)

SpecSuffix == InitSuffix /\ [][NextSuffix]_vars

\* C13: for every child of a GPLikelihood, whatever its suffix, the name
\* 'gamma_' + instrument label that GPLikelihood looks up is the child's own
\* gamma_param, registered in the vector at the child's gamma slot, and the
\* lookup does not fail.
C13_LookupNameIsGammaParam ==
    GPBuilt =>
        /\ \A i \in 1..Len(likes) :
              /\ GammaKey(likes[i].suffix) = likes[i].gamma_param
              /\ GammaKey(likes[i].suffix) \in DOMAIN vecs[comp.vector].indices
              /\ vecs[comp.vector].indices[likes[i].gamma_param] = likes[i].gamma_index
        /\ last.op \in {"gp_resids", "gp_logprob", "gp_residuals"} => last.err # "KeyError"

====
